---- MODULE Spec2Model ----
(***************************************************************************)
(* A model of the StudyBuilder tool server (src/server.py): the study      *)
(* store (one JSON record per sanitized study name), the tools that        *)
(* mutate and inspect a study record, and the callers that invoke them.    *)
(*                                                                         *)
(* Text that the code processes character by character (study names, CSV  *)
(* headers and CSV fields) is a sequence of one-character strings; text    *)
(* the code only stores and compares (output names, paths) is a string.    *)
(***************************************************************************)
EXTENDS Integers, Sequences, FiniteSets, TLC

VARIABLES
    store,   \* the files of STUDY_DIR: sanitized name -> file content
    last,    \* the tool call that returned (or raised) last, with its outcome
    pc,      \* overlapping callers: "idle", or "loaded" between load and save
    job,     \* overlapping callers: the call in progress and the loaded study
    done,    \* overlapping callers: the call each caller completed last
    calls,   \* overlapping callers: the number of calls begun
    overlapped,  \* overlapping callers: a call saved a study that another
                 \* call had saved since it was loaded
    scripts, \* the generated artifacts: path -> file content
    table,   \* the result table output.csv
    log,     \* study_execution.log
    child    \* the artifact process spawned by run_study_script

vars == <<store, last, pc, job, done, calls, overlapped, scripts, table, log,
          child>>
conc == <<pc, job, done, calls, overlapped>>
disk == <<scripts, table, log, child>>

\* ------------------------------------------------------------------ bounds

MaxInputs == 2      \* longest inputs list a record is allowed to reach
MaxCalls == 2       \* calls begun by the overlapping callers

\* ------------------------------------------------------------------ inputs

StudyNames == {<<"a">>, <<"a", "!">>}
InputNames == {<<"x">>, <<"y">>}
ManualBounds == {<<0, 5>>, <<1, 9>>}
Paths == {"", "/bin/sim"}
OutputNames == {"cost", "speed"}
Procs == {1, 2}

\* ------------------------------------------------------------------ text

Letters == {"a", "b", "c", "d", "e", "f", "g", "h", "i", "j", "k", "l", "m",
            "n", "o", "p", "q", "r", "s", "t", "u", "v", "w", "x", "y", "z"}
Digits == {"0", "1", "2", "3", "4", "5", "6", "7", "8", "9"}
Whitespace == {" ", "\n"}

isalnum(c) == c \in Letters \cup Digits

RECURSIVE lstrip(_)
lstrip(s) ==
    IF s # <<>> /\ Head(s) \in Whitespace THEN lstrip(Tail(s)) ELSE s

RECURSIVE rstrip(_)
rstrip(s) ==
    IF s # <<>> /\ s[Len(s)] \in Whitespace
    THEN rstrip(SubSeq(s, 1, Len(s) - 1))
    ELSE s

strip(s) == rstrip(lstrip(s))

DigitValue(c) ==
    CASE c = "0" -> 0 [] c = "1" -> 1 [] c = "2" -> 2 [] c = "3" -> 3
      [] c = "4" -> 4 [] c = "5" -> 5 [] c = "6" -> 6 [] c = "7" -> 7
      [] c = "8" -> 8 [] c = "9" -> 9

RECURSIVE DecimalValue(_)
DecimalValue(s) ==
    IF s = <<>> THEN 0
    ELSE 10 * DecimalValue(SubSeq(s, 1, Len(s) - 1)) + DigitValue(s[Len(s)])

\* float(text) for the texts of this model (digits, blanks and letters):
\* surrounding whitespace is ignored, a non-empty run of digits is its
\* decimal value, anything else is a ValueError.
float(s) ==
    LET t == strip(s) IN
    IF t # <<>> /\ \A i \in 1..Len(t) : t[i] \in Digits
    THEN [ok |-> TRUE, value |-> DecimalValue(t)]
    ELSE [ok |-> FALSE, value |-> 0]

\* ------------------------------------------------------------------ store

NoFile == [kind |-> "nofile"]
CorruptFile == [kind |-> "corrupt"]

\* json.dump / json.load of a study dictionary: the file holds a JSON
\* document of the dictionary; a file that is no JSON document cannot be
\* loaded.
json_dump(study) == [kind |-> "json", doc |-> study]
json_loadable(content) == content.kind = "json"
json_load(content) == content.doc

\* The file name of a study: the name without its unsafe characters,
\* stripped (the directory and the .json suffix are the same for all).
get_study_path(study_name) ==
    strip(SelectSeq(study_name, LAMBDA c : isalnum(c) \/ c \in {" ", "-", "_"}))

Keys == {get_study_path(n) : n \in StudyNames}

Skeleton(study_name) ==
    [study_name |-> study_name, executable_path |-> "",
     inputs |-> <<>>, outputs |-> <<>>]

\* load_study: [raised, study]; raised when the file is not readable JSON.
load_study(st, study_name) ==
    LET path == get_study_path(study_name) IN
    IF st[path] = NoFile
    THEN [raised |-> FALSE, study |-> Skeleton(study_name)]
    ELSE IF json_loadable(st[path])
         THEN [raised |-> FALSE, study |-> json_load(st[path])]
         ELSE [raised |-> TRUE, study |-> Skeleton(study_name)]

\* save_study that writes the record to every file.
save_study_everywhere(st, study_data) ==
    [k \in DOMAIN st |-> json_dump(study_data)]

\* save_study: the files after the record is written under its own name.
save_study(st, study_data) ==
    [st EXCEPT ![get_study_path(study_data.study_name)] = json_dump(study_data)]

\* ------------------------------------------------------------------ outcomes

\* What a tool call does: the files it leaves, and what the caller gets.
\* Returns: the tool returns without having written; Saved: it returns
\* after save_study(study_data) wrote the file path; Raises: an exception
\* leaves the tool.
Returns(st, msg, val) ==
    [store |-> st, wrote |-> FALSE, path |-> <<>>, raised |-> FALSE,
     msg |-> msg, val |-> val]
Saved(st, study_data, msg, val) ==
    [store |-> save_study(st, study_data), wrote |-> TRUE,
     path |-> get_study_path(study_data.study_name), raised |-> FALSE,
     msg |-> msg, val |-> val]
Raises(st) ==
    [store |-> st, wrote |-> FALSE, path |-> <<>>, raised |-> TRUE,
     msg |-> "exception", val |-> <<>>]

\* ------------------------------------------------------------------ tools

\* create_or_load_study that writes a fresh skeleton whatever it loaded.
create_or_load_study_reset(st, study_name) ==
    LET ld == load_study(st, study_name) IN
    IF ld.raised THEN Raises(st)
    ELSE Saved(st, Skeleton(study_name), "Study is active",
               Skeleton(study_name))

\* create_or_load_study that reports the study without saving it.
create_or_load_study_unsaved(st, study_name) ==
    LET ld == load_study(st, study_name) IN
    IF ld.raised THEN Raises(st)
    ELSE Returns(st, "Study is active", ld.study)

\* create_or_load_study: load (or make the skeleton), save, report the study.
create_or_load_study(st, study_name) ==
    LET ld == load_study(st, study_name) IN
    IF ld.raised THEN Raises(st)
    ELSE Saved(st, ld.study, "Study is active", ld.study)

\* A path setter that builds the record anew around the path.
with_executable_path_fresh(study, path) ==
    [Skeleton(study.study_name) EXCEPT !.executable_path = path]

\* A path setter that keeps a path already set.
with_executable_path_once(study, path) ==
    IF study.executable_path = "" THEN [study EXCEPT !.executable_path = path]
    ELSE study

\* study["executable_path"] = path
with_executable_path(study, path) == [study EXCEPT !.executable_path = path]

set_executable_path(st, study_name, path) ==
    LET ld == load_study(st, study_name) IN
    IF ld.raised THEN Raises(st)
    ELSE Saved(st, with_executable_path(ld.study, path),
               "Executable path set", path)

\* next((item for item in inputs if item["name"] == name), None): the index
\* of the first input of that name, 0 for None.
existing_input(inputs, name) ==
    IF \E i \in 1..Len(inputs) : inputs[i].name = name
    THEN CHOOSE i \in 1..Len(inputs) :
            /\ inputs[i].name = name
            /\ \A j \in 1..(i - 1) : inputs[j].name # name
    ELSE 0

\* list.remove(item): the list without its first element equal to item.
list_remove(seq, item) ==
    LET i == CHOOSE i \in 1..Len(seq) :
                 seq[i] = item /\ \A j \in 1..(i - 1) : seq[j] # item
    IN SubSeq(seq, 1, i - 1) \o SubSeq(seq, i + 1, Len(seq))

\* An upsert that rewrites the existing entry where it stands.
with_input_in_place(study, name, lower_bound, upper_bound) ==
    LET existing == existing_input(study.inputs, name)
        new_input == [name |-> name, lower_bound |-> lower_bound,
                      upper_bound |-> upper_bound]
    IN IF existing # 0
       THEN [study |-> [study EXCEPT !.inputs[existing] = new_input],
             msg |-> "Updated existing input"]
       ELSE [study |-> [study EXCEPT !.inputs = Append(study.inputs, new_input)],
             msg |-> "Added new input"]

\* An upsert that forgets to remove the existing entry.
with_input_append(study, name, lower_bound, upper_bound) ==
    LET existing == existing_input(study.inputs, name)
        new_input == [name |-> name, lower_bound |-> lower_bound,
                      upper_bound |-> upper_bound]
    IN [study |-> [study EXCEPT !.inputs = Append(study.inputs, new_input)],
        msg |-> IF existing # 0 THEN "Updated existing input"
                ELSE "Added new input"]

\* The body of add_input_manual on the loaded study: [study, msg].
with_input(study, name, lower_bound, upper_bound) ==
    LET existing == existing_input(study.inputs, name)
        new_input == [name |-> name, lower_bound |-> lower_bound,
                      upper_bound |-> upper_bound]
    IN IF existing # 0
       THEN [study |-> [study EXCEPT !.inputs =
                           Append(list_remove(study.inputs, study.inputs[existing]),
                                  new_input)],
             msg |-> "Updated existing input"]
       ELSE [study |-> [study EXCEPT !.inputs = Append(study.inputs, new_input)],
             msg |-> "Added new input"]

add_input_manual(st, study_name, name, lower_bound, upper_bound) ==
    LET ld == load_study(st, study_name) IN
    IF ld.raised THEN Raises(st)
    ELSE LET w == with_input(ld.study, name, lower_bound, upper_bound) IN
         Saved(st, w.study, w.msg, name)

\* ---- add_inputs_from_csv

H_name == <<"n", "a", "m", "e">>
H_lower_bound == <<"l", "o", "w", "e", "r", "_", "b", "o", "u", "n", "d">>
H_upper_bound == <<"u", "p", "p", "e", "r", "_", "b", "o", "u", "n", "d">>
required == {H_name, H_lower_bound, H_upper_bound}

\* csv.DictReader: a row is a dictionary keyed by the header fields as
\* they stand in the file; has_field / field are "key in row" / row[key].
has_field(fieldnames, key) ==
    \E i \in 1..Len(fieldnames) : fieldnames[i] = key
field(fieldnames, row, key) ==
    row[CHOOSE i \in 1..Len(fieldnames) :
            /\ fieldnames[i] = key
            /\ \A j \in (i + 1)..Len(fieldnames) : fieldnames[j] # key]

\* The loop over the rows: the inputs list as it grows, the count, and how
\* the loop ended: "done", "ValueError" (with the row) or "Exception".
RECURSIVE import_rows(_, _, _, _)
import_rows(inputs, count, fieldnames, rows) ==
    IF rows = <<>>
    THEN [end |-> "done", inputs |-> inputs, count |-> count, row |-> <<>>]
    ELSE LET row == Head(rows) IN
         IF ~has_field(fieldnames, H_name)
         THEN [end |-> "Exception", inputs |-> inputs, count |-> count, row |-> row]
         ELSE IF ~has_field(fieldnames, H_lower_bound)
         THEN [end |-> "Exception", inputs |-> inputs, count |-> count, row |-> row]
         ELSE IF ~float(field(fieldnames, row, H_lower_bound)).ok
         THEN [end |-> "ValueError", inputs |-> inputs, count |-> count, row |-> row]
         ELSE IF ~has_field(fieldnames, H_upper_bound)
         THEN [end |-> "Exception", inputs |-> inputs, count |-> count, row |-> row]
         ELSE IF ~float(field(fieldnames, row, H_upper_bound)).ok
         THEN [end |-> "ValueError", inputs |-> inputs, count |-> count, row |-> row]
         ELSE import_rows(
                  Append(inputs,
                         [name |-> field(fieldnames, row, H_name),
                          lower_bound |-> float(field(fieldnames, row, H_lower_bound)).value,
                          upper_bound |-> float(field(fieldnames, row, H_upper_bound)).value]),
                  count + 1, fieldnames, Tail(rows))

\* An import that saves the rows read so far when a row does not parse.
add_inputs_from_csv_partial(st, study_name, csv) ==
    IF ~csv.exists
    THEN Returns(st, "Error: CSV file not found", <<>>)
    ELSE
    LET ld == load_study(st, study_name) IN
    IF ld.raised THEN Raises(st)
    ELSE IF csv.empty
    THEN Returns(st, "Error processing CSV", <<>>)
    ELSE
    LET headers == [i \in 1..Len(csv.fieldnames) |-> strip(csv.fieldnames[i])] IN
    IF ~(required \subseteq {headers[i] : i \in 1..Len(headers)})
    THEN Returns(st, "Error: CSV missing required headers", headers)
    ELSE
    LET r == import_rows(ld.study.inputs, 0, csv.fieldnames, csv.rows) IN
    IF r.end = "ValueError"
    THEN Saved(st, [ld.study EXCEPT !.inputs = r.inputs],
               "Error parsing row", r.row)
    ELSE IF r.end = "Exception"
    THEN Returns(st, "Error processing CSV", r.row)
    ELSE Saved(st, [ld.study EXCEPT !.inputs = r.inputs],
               "Successfully imported", r.count)

add_inputs_from_csv(st, study_name, csv) ==
    IF ~csv.exists
    THEN Returns(st, "Error: CSV file not found", <<>>)
    ELSE
    LET ld == load_study(st, study_name) IN
    IF ld.raised THEN Raises(st)
    ELSE IF csv.empty
    THEN Returns(st, "Error processing CSV", <<>>)
    ELSE
    LET headers == [i \in 1..Len(csv.fieldnames) |-> strip(csv.fieldnames[i])] IN
    IF ~(required \subseteq {headers[i] : i \in 1..Len(headers)})
    THEN Returns(st, "Error: CSV missing required headers", headers)
    ELSE
    LET r == import_rows(ld.study.inputs, 0, csv.fieldnames, csv.rows) IN
    IF r.end = "ValueError"
    THEN Returns(st, "Error parsing row", r.row)
    ELSE IF r.end = "Exception"
    THEN Returns(st, "Error processing CSV", r.row)
    ELSE Saved(st, [ld.study EXCEPT !.inputs = r.inputs],
               "Successfully imported", r.count)

\* ---- set_study_outputs

SeqToSet(s) == {s[i] : i \in 1..Len(s)}

\* list(a_set): the elements of the set, each once, in an order the
\* language does not fix.
Listings(S) ==
    {o \in [1..Cardinality(S) -> S] : SeqToSet(o) = S}

\* Outputs that are replaced by the selection instead of joined with it.
updated_outputs_replace(study, selected_outputs) == SeqToSet(selected_outputs)

\* The body of set_study_outputs on the loaded study; listing is the order
\* list(current_outputs) comes out in.
updated_outputs(study, selected_outputs) ==
    SeqToSet(study.outputs) \cup SeqToSet(selected_outputs)
with_outputs(study, listing) == [study EXCEPT !.outputs = listing]

set_study_outputs(st, study_name, selected_outputs, listing) ==
    LET ld == load_study(st, study_name) IN
    IF ld.raised THEN Raises(st)
    ELSE Saved(st, with_outputs(ld.study, listing),
               "Updated study outputs", listing)

\* ---- get_study_status

\* A verdict that is content with any one of the three checks.
status_report_any(study) ==
    [executable |-> IF study.executable_path # "" THEN "OK" ELSE "MISSING",
     inputs |-> IF study.inputs # <<>> THEN "OK" ELSE "MISSING",
     outputs |-> IF study.outputs # <<>> THEN "OK" ELSE "MISSING",
     result |-> IF study.executable_path # "" \/ study.inputs # <<>>
                   \/ study.outputs # <<>>
                THEN "VALID" ELSE "INCOMPLETE"]

\* The report: the three checks and the verdict.
status_report(study) ==
    [executable |-> IF study.executable_path # "" THEN "OK" ELSE "MISSING",
     inputs |-> IF study.inputs # <<>> THEN "OK" ELSE "MISSING",
     outputs |-> IF study.outputs # <<>> THEN "OK" ELSE "MISSING",
     result |-> IF study.executable_path # "" /\ study.inputs # <<>>
                   /\ study.outputs # <<>>
                THEN "VALID" ELSE "INCOMPLETE"]

\* get_study_status that writes the study it has read.
get_study_status_saving(st, study_name) ==
    LET ld == load_study(st, study_name) IN
    IF ld.raised THEN Raises(st)
    ELSE Saved(st, ld.study, "Status for Study", status_report(ld.study))

get_study_status(st, study_name) ==
    LET ld == load_study(st, study_name) IN
    IF ld.raised THEN Raises(st)
    ELSE Returns(st, "Status for Study", status_report(ld.study))

\* ---- read_available_outputs_from_file

\* A text file is its lines, each with its line end. The listing is the
\* stripped lines that are not blank, in the order of the file.
TextFile(lines) == [exists |-> TRUE, lines |-> lines]
read_available_outputs_from_file(file) ==
    IF ~file.exists
    THEN [msg |-> "Error: File not found", val |-> <<>>]
    ELSE LET kept == SelectSeq(file.lines, LAMBDA line : strip(line) # <<>>)
             outputs == [i \in 1..Len(kept) |-> strip(kept[i])]
         IN [msg |-> "Found the following outputs in file", val |-> outputs]

\* ---- build_studypy

\* The number of rows the driver of a generated script appends.
Iterations == 20

\* The text of a name: its characters joined.
RECURSIVE join(_)
join(chars) == IF chars = <<>> THEN "" ELSE Head(chars) \o join(Tail(chars))

\* The script text with the outputs listed before the inputs.
script_content_outputs_first(study_config) ==
    LET inputs == study_config.inputs
        outputs == study_config.outputs
        input_names == [k \in 1..Len(inputs) |-> join(inputs[k].name)]
        all_fields == outputs \o input_names
    IN [kind |-> "script",
        executable |-> study_config.executable_path,
        input_generators |->
            [k \in 1..Len(inputs) |->
                [name |-> join(inputs[k].name), low |-> inputs[k].lower_bound,
                 high |-> inputs[k].upper_bound]],
        output_generators |->
            [i \in 1..Len(outputs) |->
                [name |-> outputs[i], sum_inputs |-> input_names,
                 factor |-> (i - 1) + 1]],
        return_dict |-> all_fields,
        headers |-> all_fields,
        iterations |-> Iterations]

\* The generated script, by the parts of the template that vary: the
\* executable, one sampling line per input, one formula line per output
\* (the sum of the inputs times the 0-based position plus one), the keys of
\* the returned mapping, the header of the table and the driver's count.
script_content(study_config) ==
    LET exe_path == study_config.executable_path
        inputs == study_config.inputs
        outputs == study_config.outputs
        input_generators ==
            [k \in 1..Len(inputs) |->
                [name |-> join(inputs[k].name), low |-> inputs[k].lower_bound,
                 high |-> inputs[k].upper_bound]]
        input_names == [k \in 1..Len(inputs) |-> join(inputs[k].name)]
        output_generators ==
            [i \in 1..Len(outputs) |->
                [name |-> outputs[i], sum_inputs |-> input_names,
                 factor |-> (i - 1) + 1]]
        output_names == outputs
        all_fields == input_names \o output_names
    IN [kind |-> "script",
        executable |-> exe_path,
        input_generators |-> input_generators,
        output_generators |-> output_generators,
        return_dict |-> all_fields,
        headers |-> all_fields,
        iterations |-> Iterations]

\* build_studypy: the script files after the text is written.
build_studypy(files, study_config, output_script_name) ==
    [files |-> [files EXCEPT ![output_script_name] = script_content(study_config)],
     msg |-> "Successfully generated"]

\* build_studypy_from_json that builds only from a VALID definition.
build_studypy_from_json_valid(st, files, study_name, studypy_path) ==
    LET ld == load_study(st, study_name) IN
    IF ld.raised \/ status_report(ld.study).result # "VALID"
    THEN [files |-> files, msg |-> "An unexpected error occurred"]
    ELSE build_studypy(files, ld.study, studypy_path)

build_studypy_from_json(st, files, study_name, studypy_path) ==
    LET ld == load_study(st, study_name) IN
    IF ld.raised
    THEN [files |-> files, msg |-> "An unexpected error occurred"]
    ELSE build_studypy(files, ld.study, studypy_path)

\* ---- get_study_progress

\* The table file is its complete lines and the unterminated text after
\* them; reading it line by line yields that text as a last line.
TextLines(lines, rest) == [kind |-> "text", lines |-> lines, rest |-> rest]
line_count(file) == Len(file.lines) + (IF file.rest # <<>> THEN 1 ELSE 0)

\* A progress reading that does not leave the header line out.
get_study_progress_lines(tbl) ==
    IF tbl.kind = "nofile"
    THEN [msg |-> "Study has not started yet", val |-> 0]
    ELSE [msg |-> "Current Progress", val |-> line_count(tbl)]

get_study_progress(tbl) ==
    IF tbl.kind = "nofile"
    THEN [msg |-> "Study has not started yet", val |-> 0]
    ELSE LET row_count == line_count(tbl) - 1 IN
         [msg |-> "Current Progress",
          val |-> IF row_count < 0 THEN 0 ELSE row_count]

\* ---- the generated script, run

\* Text written to a file: cells, and the line end that completes a line.
LineEnd == "\r\n"
write(file, text) ==
    IF text # <<>> /\ text[Len(text)] = LineEnd
    THEN TextLines(Append(file.lines,
                          file.rest \o SubSeq(text, 1, Len(text) - 1)), <<>>)
    ELSE TextLines(file.lines, file.rest \o text)

\* A table file opened for appending where the driver opens it for writing.
open_a(file) == IF file.kind = "nofile" THEN TextLines(<<>>, <<>>) ELSE file

\* open(path, 'w'): the file exists and is empty.
open_w(file) == TextLines(<<>>, <<>>)

\* writeheader() and writerow(data): a cell for each field of headers, the
\* sampled and computed values being numbers.
header_text(headers) == headers \o <<LineEnd>>
row_text(headers) == [k \in 1..Len(headers) |-> "number"] \o <<LineEnd>>

\* What the script has printed when it ends.
printed ==
    <<"Starting study run", "Saving data">>
      \o [i \in 1..Iterations |-> "Written row"] \o <<"Study complete.">>

\* ---- run_study_script

\* run_study_script that opens the log before it looks for the script.
run_study_script_log_first(files, lg, ch, script_path) ==
    IF files[script_path] = NoFile
    THEN [log |-> open_w(lg), child |-> ch, msg |-> "Error: Script not found",
          val |-> 0]
    ELSE [log |-> open_w(lg),
          child |-> [at |-> "start", i |-> 0, pid |-> ch.pid + 1,
                     headers |-> files[script_path].headers, written |-> 0],
          msg |-> "Study started in background", val |-> ch.pid + 1]

\* run_study_script: the log, the child process and the result. The child
\* is a new process running the script; it has done nothing yet.
run_study_script(files, lg, ch, script_path) ==
    IF files[script_path] = NoFile
    THEN [log |-> lg, child |-> ch, msg |-> "Error: Script not found",
          val |-> 0]
    ELSE [log |-> open_w(lg),
          child |-> [at |-> "start", i |-> 0, pid |-> ch.pid + 1,
                     headers |-> files[script_path].headers, written |-> 0],
          msg |-> "Study started in background", val |-> ch.pid + 1]

\* ------------------------------------------------------------------ callers

\* The CSV files a caller may point add_inputs_from_csv at: a missing
\* file, a file without the upper_bound column, and files of well-formed
\* and ill-formed rows.
RowX == <<<<"x">>, <<"0">>, <<"5">>>>
RowY == <<<<"y">>, <<" ", "1">>, <<"9">>>>
RowYBad == <<<<"y">>, <<"2">>, <<"n", "o">>>>
RowXBad == <<<<"x">>, <<"n", "o">>, <<"5">>>>
CsvHeader == <<H_name, H_lower_bound, H_upper_bound>>
CsvFile(rows) ==
    [exists |-> TRUE, empty |-> FALSE, fieldnames |-> CsvHeader, rows |-> rows]
MissingCsv == [exists |-> FALSE, empty |-> FALSE, fieldnames |-> <<>>, rows |-> <<>>]
ShortCsv == [exists |-> TRUE, empty |-> FALSE,
             fieldnames |-> <<H_name, H_lower_bound>>, rows |-> <<RowX>>]
\* A file of no lines: the reader has no fieldnames (None).
EmptyCsv == [exists |-> TRUE, empty |-> TRUE, fieldnames |-> <<>>, rows |-> <<>>]
\* Files whose header differs from name, lower_bound, upper_bound in the
\* case of a letter, in a leading blank, and in the order of the columns.
CaseCsv == [exists |-> TRUE, empty |-> FALSE,
            fieldnames |-> <<<<"N", "a", "m", "e">>, H_lower_bound, H_upper_bound>>,
            rows |-> <<RowX>>]
PaddedCsv == [exists |-> TRUE, empty |-> FALSE,
              fieldnames |-> <<<<" ", "n", "a", "m", "e">>, H_lower_bound,
                               H_upper_bound>>,
              rows |-> <<RowX>>]
ReorderedCsv == [exists |-> TRUE, empty |-> FALSE,
                 fieldnames |-> <<H_upper_bound, H_name, H_lower_bound>>,
                 rows |-> <<<<<<"5">>, <<"x">>, <<"0">>>>>>]
CsvFiles ==
    {MissingCsv, ShortCsv, CsvFile(<<>>), CsvFile(<<RowX>>), CsvFile(<<RowY>>),
     CsvFile(<<RowX, RowY>>), CsvFile(<<RowX, RowX>>), CsvFile(<<RowX, RowYBad>>),
     CsvFile(<<RowXBad, RowY>>), EmptyCsv, CaseCsv, PaddedCsv, ReorderedCsv}

\* The selected_outputs arguments a caller may pass.
Selections ==
    {<<>>, <<"cost">>, <<"speed", "cost">>, <<"speed", "speed">>}

\* The inputs lists stay within the bound of the model.
InBounds(st) ==
    \A k \in DOMAIN st :
        json_loadable(st[k]) => Len(json_load(st[k]).inputs) <= MaxInputs

\* A tool call made on its own, from entry to return: r is what the tool
\* does on the files as they are.
Call(op, study_name, arg, r) ==
    /\ InBounds(r.store)
    /\ store' = r.store
    /\ last' = [op |-> op, study_name |-> study_name, arg |-> arg,
                raised |-> r.raised, msg |-> r.msg, val |-> r.val]
    /\ UNCHANGED <<conc, disk>>

CallCreateOrLoadStudy ==
    \E n \in StudyNames :
        Call("create_or_load_study", n, [none |-> TRUE],
             create_or_load_study(store, n))

CallSetExecutablePath ==
    \E n \in StudyNames, path \in Paths :
        Call("set_executable_path", n, [path |-> path],
             set_executable_path(store, n, path))

CallAddInputManual ==
    \E n \in StudyNames, name \in InputNames, b \in ManualBounds :
        Call("add_input_manual", n,
             [name |-> name, lower_bound |-> b[1], upper_bound |-> b[2]],
             add_input_manual(store, n, name, b[1], b[2]))

CallAddInputsFromCsv ==
    \E n \in StudyNames, csv \in CsvFiles :
        Call("add_inputs_from_csv", n, [csv |-> csv],
             add_inputs_from_csv(store, n, csv))

CallSetStudyOutputs ==
    \E n \in StudyNames, selected \in Selections :
        \E listing \in Listings(updated_outputs(load_study(store, n).study, selected)) :
            Call("set_study_outputs", n, [selected_outputs |-> selected],
                 set_study_outputs(store, n, selected, listing))

CallGetStudyStatus ==
    \E n \in StudyNames :
        Call("get_study_status", n, [none |-> TRUE], get_study_status(store, n))

NoCall ==
    [op |-> "none", study_name |-> <<>>, arg |-> [none |-> TRUE],
     raised |-> FALSE, msg |-> "", val |-> <<>>]

\* No call in progress.
NoJob == [op |-> "none", study_name |-> <<>>, arg |-> [none |-> TRUE],
          st |-> <<>>, stale |-> FALSE]

\* The script paths a caller may name.
ScriptPaths == {"study.py", "other.py"}

\* No artifact process has been spawned.
NoChild == [at |-> "none", i |-> 0, pid |-> 0, headers |-> <<>>, written |-> 0]

\* No tool call is in progress.
Quiet ==
    /\ pc = [p \in Procs |-> "idle"]
    /\ job = [p \in Procs |-> NoJob]
    /\ done = [p \in Procs |-> NoCall]
    /\ calls = 0
    /\ overlapped = FALSE

Init ==
    /\ store = [k \in Keys |-> NoFile]
    /\ last = NoCall
    /\ Quiet
    /\ scripts = [f \in ScriptPaths |-> NoFile]
    /\ table = NoFile
    /\ log = NoFile
    /\ child = NoChild

Next ==
    \/ CallCreateOrLoadStudy
    \/ CallSetExecutablePath
    \/ CallAddInputManual
    \/ CallAddInputsFromCsv
    \/ CallSetStudyOutputs
    \/ CallGetStudyStatus

Spec == Init /\ [][Next]_vars

\* ------------------------------------------------------------------ overlapping calls

\* Tool calls that overlap in time. No tool takes a lock: a call reads the
\* record file in load_study and writes it in save_study, and another
\* call may do either in between. Begin is a call up to and including its
\* load_study, Finish is the rest of it, on the study it loaded.

\* The tool op computing on the files st.
ToolRun(op, st, study_name, arg, listing) ==
    CASE op = "create_or_load_study" -> create_or_load_study(st, study_name)
      [] op = "set_executable_path" ->
            set_executable_path(st, study_name, arg.path)
      [] op = "add_input_manual" ->
            add_input_manual(st, study_name, arg.name, arg.lower_bound,
                             arg.upper_bound)
      [] op = "add_inputs_from_csv" -> add_inputs_from_csv(st, study_name, arg.csv)
      [] op = "set_study_outputs" ->
            set_study_outputs(st, study_name, arg.selected_outputs, listing)

\* The orders list(current_outputs) may come out in for the call.
ListingsOf(op, st, study_name, arg) ==
    IF op = "set_study_outputs"
    THEN Listings(updated_outputs(load_study(st, study_name).study,
                                  arg.selected_outputs))
    ELSE {<<>>}

Begin(p, op, study_name, arg) ==
    /\ pc[p] = "idle"
    /\ calls < MaxCalls
    /\ \A listing \in ListingsOf(op, store, study_name, arg) :
          InBounds(ToolRun(op, store, study_name, arg, listing).store)
    /\ pc' = [pc EXCEPT ![p] = "loaded"]
    /\ job' = [job EXCEPT ![p] = [op |-> op, study_name |-> study_name,
                                  arg |-> arg, st |-> store, stale |-> FALSE]]
    /\ calls' = calls + 1
    /\ UNCHANGED <<store, last, done, overlapped, disk>>

BeginCreateOrLoadStudy(p) ==
    \E n \in StudyNames : Begin(p, "create_or_load_study", n, [none |-> TRUE])

BeginSetExecutablePath(p) ==
    \E n \in StudyNames, path \in Paths :
        Begin(p, "set_executable_path", n, [path |-> path])

BeginAddInputManual(p) ==
    \E n \in StudyNames, name \in InputNames, b \in ManualBounds :
        Begin(p, "add_input_manual", n,
              [name |-> name, lower_bound |-> b[1], upper_bound |-> b[2]])

\* The imports that overlap other calls: one that succeeds, one that fails.
OverlapCsvFiles == {CsvFile(<<RowY>>), CsvFile(<<RowX, RowYBad>>)}

BeginAddInputsFromCsv(p) ==
    \E n \in StudyNames, csv \in OverlapCsvFiles :
        Begin(p, "add_inputs_from_csv", n, [csv |-> csv])

\* The selections that overlap other calls.
OverlapSelections == {<<"cost">>, <<"speed", "cost">>}

BeginSetStudyOutputs(p) ==
    \E n \in StudyNames, selected \in OverlapSelections :
        Begin(p, "set_study_outputs", n, [selected_outputs |-> selected])

\* The rest of the call: the tool works on the files as they were when it
\* loaded, and what it saves replaces the record file as it is now.
Finish(p) ==
    /\ pc[p] = "loaded"
    /\ \E listing \in ListingsOf(job[p].op, job[p].st, job[p].study_name, job[p].arg) :
          LET r == ToolRun(job[p].op, job[p].st, job[p].study_name, job[p].arg,
                           listing)
          IN /\ store' = IF r.wrote THEN [store EXCEPT ![r.path] = r.store[r.path]]
                         ELSE store
             /\ done' = [done EXCEPT ![p] =
                           [op |-> job[p].op, study_name |-> job[p].study_name,
                            arg |-> job[p].arg, raised |-> r.raised,
                            msg |-> r.msg, val |-> r.val]]
             /\ overlapped' = (overlapped \/ (r.wrote /\ job[p].stale))
             /\ job' = [q \in Procs |->
                          IF q = p THEN NoJob
                          ELSE IF r.wrote /\ pc[q] = "loaded"
                               THEN [job[q] EXCEPT !.stale = TRUE]
                               ELSE job[q]]
    /\ pc' = [pc EXCEPT ![p] = "idle"]
    /\ UNCHANGED <<last, calls, disk>>

NextConc ==
    \E p \in Procs :
        \/ BeginCreateOrLoadStudy(p)
        \/ BeginSetExecutablePath(p)
        \/ BeginAddInputManual(p)
        \/ BeginAddInputsFromCsv(p)
        \/ BeginSetStudyOutputs(p)
        \/ Finish(p)

SpecConc == Init /\ [][NextConc]_vars

\* ------------------------------------------------------------------ faults

\* The record file of a study is damaged from outside the server (edited,
\* or cut short by a crash in mid-write): it no longer holds JSON.
CorruptRecord ==
    \E k \in Keys :
        /\ json_loadable(store[k])
        /\ store' = [store EXCEPT ![k] = CorruptFile]
        /\ UNCHANGED <<last, conc, disk>>

NextFault == Next \/ CorruptRecord

SpecFault == Init /\ [][NextFault]_vars

\* ------------------------------------------------------------------ building

\* A caller defines one study and builds its script: the definition tools
\* with the arguments below (the CSV file has the row x, 0, 5), the
\* read-only tools, and build_studypy_from_json to one script path.
BuildNames == {<<"a">>}
BuildBounds == {<<0, 5>>}
BuildSelections == {<<"cost">>, <<"cost", "speed">>}
BuildPaths == {"study.py"}
BuildCsvFiles == {CsvFile(<<RowX>>)}

\* The files a caller may point read_available_outputs_from_file at: a
\* missing file, and a file with a blank line and a padded line.
MissingTxt == [exists |-> FALSE, lines |-> <<>>]
OutputsTxt ==
    TextFile(<<<<"c", "\n">>, <<" ", "\n">>, <<" ", "s", " ", "\n">>>>)
OutputFiles == {MissingTxt, OutputsTxt}

\* A table left by an earlier run: a header and one row.
PriorTable == TextLines(<<<<"x", "cost">>, <<"number", "number">>>>, <<>>)

\* A call of a tool that takes no study and writes no file.
Inspect(op, arg, r) ==
    /\ last' = [op |-> op, study_name |-> <<>>, arg |-> arg, raised |-> FALSE,
                msg |-> r.msg, val |-> r.val]
    /\ UNCHANGED <<store, conc, disk>>

BuildSetExecutablePath ==
    \E n \in BuildNames, path \in Paths :
        Call("set_executable_path", n, [path |-> path],
             set_executable_path(store, n, path))

BuildAddInputManual ==
    \E n \in BuildNames, name \in InputNames, b \in BuildBounds :
        Call("add_input_manual", n,
             [name |-> name, lower_bound |-> b[1], upper_bound |-> b[2]],
             add_input_manual(store, n, name, b[1], b[2]))

BuildAddInputsFromCsv ==
    \E n \in BuildNames, csv \in BuildCsvFiles :
        Call("add_inputs_from_csv", n, [csv |-> csv],
             add_inputs_from_csv(store, n, csv))

BuildSetStudyOutputs ==
    \E n \in BuildNames, selected \in BuildSelections :
        \E listing \in Listings(updated_outputs(load_study(store, n).study, selected)) :
            Call("set_study_outputs", n, [selected_outputs |-> selected],
                 set_study_outputs(store, n, selected, listing))

BuildGetStudyStatus ==
    \E n \in BuildNames :
        Call("get_study_status", n, [none |-> TRUE], get_study_status(store, n))

CallReadAvailableOutputsFromFile ==
    \E file \in OutputFiles :
        Inspect("read_available_outputs_from_file", [file |-> file],
                read_available_outputs_from_file(file))

CallGetStudyProgress ==
    Inspect("get_study_progress", [csv_path |-> "output.csv"],
            get_study_progress(table))

CallBuildStudypyFromJson ==
    \E n \in BuildNames, path \in BuildPaths :
        LET r == build_studypy_from_json(store, scripts, n, path) IN
        /\ scripts' = r.files
        /\ last' = [op |-> "build_studypy_from_json", study_name |-> n,
                    arg |-> [studypy_path |-> path], raised |-> FALSE,
                    msg |-> r.msg, val |-> <<>>]
        /\ UNCHANGED <<store, conc, table, log, child>>

InitBuild ==
    /\ store = [k \in Keys |-> NoFile]
    /\ last = NoCall
    /\ Quiet
    /\ scripts = [f \in ScriptPaths |-> NoFile]
    /\ table \in {NoFile, PriorTable}
    /\ log = NoFile
    /\ child = NoChild

NextBuild ==
    \/ BuildSetExecutablePath
    \/ BuildAddInputManual
    \/ BuildAddInputsFromCsv
    \/ BuildSetStudyOutputs
    \/ BuildGetStudyStatus
    \/ CallReadAvailableOutputsFromFile
    \/ CallGetStudyProgress
    \/ CallBuildStudypyFromJson

SpecBuild == InitBuild /\ [][NextBuild]_vars

\* ------------------------------------------------------------------ running

\* A caller runs a built script and reads its progress. The script is run
\* MaxRuns times at most, and not while an earlier run is still going.
MaxRuns == 2

\* The definitions the script has been built from.
RunStudies ==
    {Skeleton(<<"a">>),
     [study_name |-> <<"a">>, executable_path |-> "/bin/sim",
      inputs |-> <<[name |-> <<"x">>, lower_bound |-> 0, upper_bound |-> 5],
                   [name |-> <<"y">>, lower_bound |-> 0, upper_bound |-> 5]>>,
      outputs |-> <<"cost">>]}

CallRunStudyScript ==
    \E path \in ScriptPaths :
        LET r == run_study_script(scripts, log, child, path) IN
        /\ child.at \in {"none", "done"}
        /\ child.pid < MaxRuns
        /\ log' = r.log
        /\ child' = r.child
        /\ last' = [op |-> "run_study_script", study_name |-> <<>>,
                    arg |-> [script_path |-> path], raised |-> FALSE,
                    msg |-> r.msg, val |-> r.val]
        /\ UNCHANGED <<store, conc, scripts, table>>

\* The driver of the script: open the table for writing, write the header.
ChildOpenTable ==
    /\ child.at = "start"
    /\ table' = open_w(table)
    /\ child' = [child EXCEPT !.at = "opened"]
    /\ UNCHANGED <<store, last, conc, scripts, log>>

ChildWriteHeader ==
    /\ child.at = "opened"
    /\ table' = write(table, header_text(child.headers))
    /\ child' = [child EXCEPT !.at = "loop"]
    /\ UNCHANGED <<store, last, conc, scripts, log>>

\* One iteration appends one row. The row reaches the file at once, or a
\* first part of it does and the rest follows.
ChildWriteRow ==
    /\ child.at = "loop" /\ child.i < Iterations
    /\ table' = write(table, row_text(child.headers))
    /\ child' = [child EXCEPT !.i = @ + 1]
    /\ UNCHANGED <<store, last, conc, scripts, log>>

ChildWriteRowPart ==
    /\ child.at = "loop" /\ child.i < Iterations
    /\ \E k \in 1..Len(child.headers) :
          /\ table' = write(table, SubSeq(row_text(child.headers), 1, k))
          /\ child' = [child EXCEPT !.at = "row", !.written = k]
    /\ UNCHANGED <<store, last, conc, scripts, log>>

ChildWriteRowRest ==
    /\ child.at = "row"
    /\ table' = write(table, SubSeq(row_text(child.headers), child.written + 1,
                                    Len(child.headers) + 1))
    /\ child' = [child EXCEPT !.at = "loop", !.written = 0, !.i = @ + 1]
    /\ UNCHANGED <<store, last, conc, scripts, log>>

\* After the last iteration the script ends; what it printed is in the log.
ChildExit ==
    /\ child.at = "loop" /\ child.i = Iterations
    /\ child' = [child EXCEPT !.at = "done"]
    /\ log' = TextLines(log.lines \o printed, <<>>)
    /\ UNCHANGED <<store, last, conc, scripts, table>>

Child ==
    \/ ChildOpenTable
    \/ ChildWriteHeader
    \/ ChildWriteRow
    \/ ChildWriteRowPart
    \/ ChildWriteRowRest
    \/ ChildExit

InitRun ==
    /\ \E study \in RunStudies :
          /\ store = save_study([k \in Keys |-> NoFile], study)
          /\ scripts = [f \in ScriptPaths |->
                           IF f = "study.py" THEN script_content(study)
                           ELSE NoFile]
    /\ last = NoCall
    /\ Quiet
    /\ table \in {NoFile, PriorTable}
    /\ log = NoFile
    /\ child = NoChild

NextRun ==
    \/ CallRunStudyScript
    \/ CallGetStudyProgress
    \/ Child

SpecRun == InitRun /\ [][NextRun]_vars

\* The operating system keeps running the child process.
SpecRunFair == SpecRun /\ WF_vars(Child)

\* ------------------------------------------------------------------ keys

\* A caller works on several studies: two names of one file, a name of
\* another file, and a name whose file name is empty.
KeyNames == {<<"a">>, <<"a", "!">>, <<"b">>, <<"!">>}
KeyFiles == {get_study_path(n) : n \in KeyNames}

KeysCreateOrLoadStudy ==
    \E n \in KeyNames :
        Call("create_or_load_study", n, [none |-> TRUE],
             create_or_load_study(store, n))

KeysSetExecutablePath ==
    \E n \in KeyNames :
        Call("set_executable_path", n, [path |-> "/bin/sim"],
             set_executable_path(store, n, "/bin/sim"))

KeysAddInputManual ==
    \E n \in KeyNames, b \in BuildBounds :
        Call("add_input_manual", n,
             [name |-> <<"y">>, lower_bound |-> b[1], upper_bound |-> b[2]],
             add_input_manual(store, n, <<"y">>, b[1], b[2]))

KeysSetStudyOutputs ==
    \E n \in KeyNames :
        Call("set_study_outputs", n, [selected_outputs |-> <<"cost">>],
             set_study_outputs(store, n, <<"cost">>, <<"cost">>))

InitKeys ==
    /\ store = [k \in KeyFiles |-> NoFile]
    /\ last = NoCall
    /\ Quiet
    /\ scripts = [f \in ScriptPaths |-> NoFile]
    /\ table = NoFile
    /\ log = NoFile
    /\ child = NoChild

NextKeys ==
    \/ KeysCreateOrLoadStudy
    \/ KeysSetExecutablePath
    \/ KeysAddInputManual
    \/ KeysSetStudyOutputs

SpecKeys == InitKeys /\ [][NextKeys]_vars

\* ------------------------------------------------------------------ claims

\* The step is a tool call of this name that returned.
Returned(op) == last'.op = op /\ ~last'.raised

\* The key of the study the last call named, before and after the step.
LastKey == get_study_path(last.study_name)
NextKey == get_study_path(last'.study_name)

HasName(inputs, name) == \E i \in 1..Len(inputs) : inputs[i].name = name
FirstNamed(inputs, name) ==
    CHOOSE i \in 1..Len(inputs) :
        inputs[i].name = name /\ \A j \in 1..(i - 1) : inputs[j].name # name
Without(seq, i) == SubSeq(seq, 1, i - 1) \o SubSeq(seq, i + 1, Len(seq))
UniqueByName(inputs) ==
    \A i, j \in 1..Len(inputs) : i # j => inputs[i].name # inputs[j].name
NoRepeat(seq) == \A i, j \in 1..Len(seq) : i # j => seq[i] # seq[j]
NewInput(arg) ==
    [name |-> arg.name, lower_bound |-> arg.lower_bound,
     upper_bound |-> arg.upper_bound]

\* C1: create_or_load_study never resets an existing record: whatever the
\* study name, a record that exists before the call exists after it with
\* the same executable_path, inputs and outputs.
C1_CreateOrLoadKeepsRecord ==
    [][Returned("create_or_load_study") =>
          (store[NextKey] # NoFile =>
              /\ store'[NextKey] # NoFile
              /\ json_load(store'[NextKey]).executable_path
                    = json_load(store[NextKey]).executable_path
              /\ json_load(store'[NextKey]).inputs = json_load(store[NextKey]).inputs
              /\ json_load(store'[NextKey]).outputs
                    = json_load(store[NextKey]).outputs)]_vars

\* C1 witness: create_or_load_study has returned for a study whose record
\* held a path, inputs and outputs, called under another spelling of its name.
C1_Witness ==
    /\ last.op = "create_or_load_study" /\ ~last.raised
    /\ last.val.executable_path # "" /\ last.val.inputs # <<>>
    /\ last.val.outputs # <<>>
    /\ last.val.study_name # last.study_name
    /\ json_load(store[LastKey]) = last.val

\* The rows of a CSV file whose bounds do not parse as numbers.
BadRow(csv, i) ==
    \/ ~float(field(csv.fieldnames, csv.rows[i], H_lower_bound)).ok
    \/ ~float(field(csv.fieldnames, csv.rows[i], H_upper_bound)).ok
Importable(csv) ==
    /\ csv.exists
    /\ required \subseteq {csv.fieldnames[i] : i \in 1..Len(csv.fieldnames)}
HasBadRow(csv) == \E i \in 1..Len(csv.rows) : BadRow(csv, i)
FirstBadRow(csv) ==
    CHOOSE i \in 1..Len(csv.rows) :
        BadRow(csv, i) /\ \A j \in 1..(i - 1) : ~BadRow(csv, j)

C3_InputsUniqueByName ==
    \A k \in Keys :
        json_loadable(store[k]) => UniqueByName(json_load(store[k]).inputs)

TwoUpserts ==
    /\ last.op = "add_input_manual" /\ ~last.raised
    /\ Returned("add_input_manual")
    /\ NextKey = LastKey
    /\ last'.arg.name = last.arg.name
    /\ UniqueByName(json_load(store[LastKey]).inputs)

OneInputWithBounds(inputs, arg) ==
    /\ Cardinality({i \in 1..Len(inputs) : inputs[i].name = arg.name}) = 1
    /\ \E i \in 1..Len(inputs) : inputs[i] = NewInput(arg)

\* C5 as stated: after two upserts of one name the record holds exactly one
\* input of that name, with the second bounds; the first call reports an
\* insert and the second an update.
C5_InsertThenUpdate ==
    [][TwoUpserts =>
          /\ OneInputWithBounds(json_load(store'[NextKey]).inputs, last'.arg)
          /\ last.msg = "Added new input"
          /\ last'.msg = "Updated existing input"]_vars

\* C5 amended: after two upserts of one name the record holds exactly one
\* input of that name, with the second bounds, and the second call reports
\* an update; a call reports an insert exactly when the name was not among
\* the inputs before it, and an update otherwise.
C5_UpsertTwice ==
    [][/\ TwoUpserts =>
            /\ OneInputWithBounds(json_load(store'[NextKey]).inputs, last'.arg)
            /\ last'.msg = "Updated existing input"
       /\ Returned("add_input_manual") =>
            LET old == load_study(store, last'.study_name).study.inputs IN
            last'.msg = IF HasName(old, last'.arg.name)
                        THEN "Updated existing input"
                        ELSE "Added new input"]_vars

\* C5 witness: an update has returned and the record holds exactly one
\* input of the name, with the bounds of the call.
C5_Witness ==
    /\ last.op = "add_input_manual" /\ last.msg = "Updated existing input"
    /\ last.arg.lower_bound = 1 /\ last.arg.upper_bound = 9
    /\ OneInputWithBounds(json_load(store[LastKey]).inputs, last.arg)

\* C6: no tool call raises past the boundary, also when the record file
\* cannot be read.
C6_NeverRaises == ~last.raised

\* What a completed call added to the study is in the record: the input of
\* add_input_manual, the inputs of a successful import, the outputs of
\* set_study_outputs (no tool removes an input or an output).
UpdateKept(d) ==
    LET k == get_study_path(d.study_name)
        study == json_load(store[k])
    IN /\ d.op = "add_input_manual" =>
             /\ json_loadable(store[k])
             /\ HasName(study.inputs, d.arg.name)
       /\ (d.op = "add_inputs_from_csv" /\ d.msg = "Successfully imported") =>
             /\ json_loadable(store[k])
             /\ \A i \in 1..Len(d.arg.csv.rows) :
                   HasName(study.inputs,
                           field(d.arg.csv.fieldnames, d.arg.csv.rows[i], H_name))
       /\ d.op = "set_study_outputs" =>
             /\ json_loadable(store[k])
             /\ SeqToSet(d.arg.selected_outputs) \subseteq SeqToSet(study.outputs)

Completed(d) == d.op # "none" /\ ~d.raised

\* C7: the record lacks what a completed call added only after an overlap:
\* some call saved a study that another call had saved since it was loaded
\* (and, by the witness, such a state is reached with both calls
\* reporting success).
C7_LostOnlyByOverlap ==
    \A p \in Procs : (Completed(done[p]) /\ ~UpdateKept(done[p])) => overlapped

\* C7 witness: two calls overlapped, add_input_manual and
\* set_study_outputs on the same study; both returned their success
\* message, and the record lacks the input that was added.
C7_Witness ==
    /\ calls = 2 /\ \A p \in Procs : pc[p] = "idle"
    /\ done[1].op = "add_input_manual" /\ done[1].msg = "Added new input"
    /\ done[2].op = "set_study_outputs" /\ done[2].msg = "Updated study outputs"
    /\ done[2].arg.selected_outputs # <<>>
    /\ get_study_path(done[1].study_name) = get_study_path(done[2].study_name)
    /\ ~UpdateKept(done[1])
    /\ UpdateKept(done[2])

\* C8: set_study_outputs leaves as outputs the union of the previous
\* outputs and the selection, each name once, and returns that listing.
C8_UnionOutputs ==
    [][Returned("set_study_outputs") =>
          LET old == load_study(store, last'.study_name).study.outputs
              new == json_load(store'[NextKey]).outputs
          IN /\ SeqToSet(new) = SeqToSet(old) \cup SeqToSet(last'.arg.selected_outputs)
             /\ NoRepeat(new)
             /\ last'.val = new]_vars

\* C8 witness: a selection that names speed twice has been joined with
\* outputs that held cost, and the record holds the two names.
C8_Witness ==
    /\ last.op = "set_study_outputs" /\ ~last.raised
    /\ last.arg.selected_outputs = <<"speed", "speed">>
    /\ Len(json_load(store[LastKey]).outputs) = 2
    /\ SeqToSet(json_load(store[LastKey]).outputs) = {"cost", "speed"}

\* C9: get_study_status reports VALID exactly when the path, the inputs and
\* the outputs are all non-empty, INCOMPLETE otherwise, and each of its
\* three lines reflects its own field.
C9_StatusIsValidity ==
    (last.op = "get_study_status" /\ ~last.raised) =>
        LET study == load_study(store, last.study_name).study IN
        /\ last.val.result \in {"VALID", "INCOMPLETE"}
        /\ last.val.result = "VALID" <=>
              (study.executable_path # "" /\ Len(study.inputs) > 0
                 /\ Len(study.outputs) > 0)
        /\ last.val.executable \in {"OK", "MISSING"}
        /\ last.val.executable = "OK" <=> study.executable_path # ""
        /\ last.val.inputs \in {"OK", "MISSING"}
        /\ last.val.inputs = "OK" <=> Len(study.inputs) > 0
        /\ last.val.outputs \in {"OK", "MISSING"}
        /\ last.val.outputs = "OK" <=> Len(study.outputs) > 0

\* C9 witness: a status report with the path and the outputs OK, the inputs
\* MISSING, and the verdict INCOMPLETE.
C9_Witness ==
    /\ last.op = "get_study_status" /\ ~last.raised
    /\ last.val.executable = "OK" /\ last.val.inputs = "MISSING"
    /\ last.val.outputs = "OK" /\ last.val.result = "INCOMPLETE"

\* C10: set_executable_path writes the given path whatever the path was and
\* leaves inputs and outputs as they were; a study with inputs and outputs
\* and no path is INCOMPLETE before and VALID after a non-empty path is set.
C10_SetPathOverwrites ==
    [][Returned("set_executable_path") =>
          LET old == load_study(store, last'.study_name).study
              new == json_load(store'[NextKey])
          IN /\ new.executable_path = last'.arg.path
             /\ new.inputs = old.inputs
             /\ new.outputs = old.outputs
             /\ (old.executable_path = "" /\ old.inputs # <<>>
                   /\ old.outputs # <<>> /\ last'.arg.path # "") =>
                   /\ get_study_status(store, last'.study_name).val.result
                         = "INCOMPLETE"
                   /\ get_study_status(store', last'.study_name).val.result
                         = "VALID"]_vars

\* C10 witness: a non-empty path has been set on a study with inputs and
\* outputs, and its status is VALID.
C10_Witness ==
    /\ last.op = "set_executable_path" /\ ~last.raised
    /\ last.arg.path # ""
    /\ json_load(store[LastKey]).inputs # <<>>
    /\ json_load(store[LastKey]).outputs # <<>>
    /\ get_study_status(store, last.study_name).val.result = "VALID"

\* A required header is absent: no field of the header line is it, blanks
\* around the field aside.
HeaderAbsent(csv) ==
    \E h \in required :
        \A i \in 1..Len(csv.fieldnames) : strip(csv.fieldnames[i]) # h

\* C12: add_inputs_from_csv of a missing file returns the not-found error,
\* and of a file without a required header the header error; in both cases
\* the record files are as before: nothing added, created or modified.
C12_ImportFailsFast ==
    [][Returned("add_inputs_from_csv") =>
          /\ ~last'.arg.csv.exists =>
                (last'.msg = "Error: CSV file not found" /\ store' = store)
          /\ (last'.arg.csv.exists /\ HeaderAbsent(last'.arg.csv)) =>
                (last'.msg = "Error: CSV missing required headers"
                   /\ store' = store)]_vars

\* The header as the claim reads it: each field stripped and in lower case.
UpperCase == <<"A", "B", "C", "D", "E", "F", "G", "H", "I", "J", "K", "L", "M",
               "N", "O", "P", "Q", "R", "S", "T", "U", "V", "W", "X", "Y", "Z">>
LowerCase == <<"a", "b", "c", "d", "e", "f", "g", "h", "i", "j", "k", "l", "m",
               "n", "o", "p", "q", "r", "s", "t", "u", "v", "w", "x", "y", "z">>
lower(c) ==
    IF \E i \in 1..26 : UpperCase[i] = c
    THEN LowerCase[CHOOSE i \in 1..26 : UpperCase[i] = c]
    ELSE c
Normalized(h) == LET t == strip(h) IN [i \in 1..Len(t) |-> lower(t[i])]
HeaderMatches(csv) ==
    /\ Len(csv.fieldnames) = 3
    /\ {Normalized(csv.fieldnames[i]) : i \in 1..3} = required
Column(csv, key) ==
    CHOOSE i \in 1..Len(csv.fieldnames) : Normalized(csv.fieldnames[i]) = key
WellFormedRows(csv) ==
    \A j \in 1..Len(csv.rows) :
        /\ float(csv.rows[j][Column(csv, H_lower_bound)]).ok
        /\ float(csv.rows[j][Column(csv, H_upper_bound)]).ok

\* C13: a file whose header is name, lower_bound, upper_bound up to letter
\* case, surrounding whitespace and column order is accepted, and its
\* well-formed rows are imported: each is an input of the record.
C13_NormalizedHeaderAccepted ==
    (last.op = "add_inputs_from_csv" /\ ~last.raised /\ last.arg.csv.exists
       /\ HeaderMatches(last.arg.csv) /\ WellFormedRows(last.arg.csv)) =>
        /\ last.msg = "Successfully imported"
        /\ last.val = Len(last.arg.csv.rows)
        /\ store[LastKey] # NoFile
        /\ \A j \in 1..Len(last.arg.csv.rows) :
              HasName(json_load(store[LastKey]).inputs,
                      last.arg.csv.rows[j][Column(last.arg.csv, H_name)])

\* C19: create_or_load_study for a name without a record writes the empty
\* skeleton under the sanitized name: study_name as given, no path, no
\* inputs, no outputs; its status is INCOMPLETE.
C19_CreatePersistsSkeleton ==
    [][(Returned("create_or_load_study") /\ store[NextKey] = NoFile) =>
          /\ json_loadable(store'[NextKey])
          /\ json_load(store'[NextKey]) =
                [study_name |-> last'.study_name, executable_path |-> "",
                 inputs |-> <<>>, outputs |-> <<>>]
          /\ get_study_status(store', last'.study_name).val.result
                = "INCOMPLETE"]_vars

\* C19 witness: create_or_load_study("a!") has returned and the record
\* under "a" is the skeleton named "a!".
C19_Witness ==
    /\ last.op = "create_or_load_study" /\ ~last.raised
    /\ last.study_name = <<"a", "!">>
    /\ json_loadable(store[<<"a">>])
    /\ json_load(store[<<"a">>]) = Skeleton(<<"a", "!">>)

\* The step is a call of one of the read-only tools.
ReadOnlyOps ==
    {"get_study_status", "read_available_outputs_from_file",
     "get_study_progress", "build_studypy_from_json"}

BuiltFrom == load_study(store, last'.study_name).study
BuiltScript == scripts'[last'.arg.studypy_path]
Built == last'.op = "build_studypy_from_json" /\ last'.msg = "Successfully generated"

C20_BuildOverwritesAndFreezes ==
    [][/\ last'.op = "build_studypy_from_json" =>
             /\ last'.msg = "Successfully generated"
             /\ BuiltScript = script_content(BuiltFrom)
             /\ \A f \in ScriptPaths \ {last'.arg.studypy_path} :
                   scripts'[f] = scripts[f]
       /\ last'.op # "build_studypy_from_json" => scripts' = scripts]_vars

\* C20 witness: a script has been built from an INCOMPLETE definition, one
\* with inputs and no path, and is the text generated from it.
C20_Witness ==
    /\ last.op = "build_studypy_from_json"
    /\ last.msg = "Successfully generated"
    /\ get_study_status(store, last.study_name).val.result = "INCOMPLETE"
    /\ scripts["study.py"] = script_content(load_study(store, last.study_name).study)
    /\ scripts["study.py"].executable = ""
    /\ scripts["study.py"].headers # <<>>

\* The step is a call of this tool, not a step of the child process.
Called(op) == last'.op = op /\ last' # last

\* The table of a run: the header of the running script, then rows.
Running == child.at \in {"start", "opened", "loop", "row"}
HeaderAndRows(n) ==
    /\ table.kind = "text"
    /\ table.rest = <<>>
    /\ Len(table.lines) = n + 1
    /\ table.lines[1] = child.headers
    /\ \A j \in 2..(n + 1) :
          table.lines[j] = [k \in 1..Len(child.headers) |-> "number"]

\* C15: a run of the script first empties the table and writes the header,
\* then appends one row in each of exactly 20 iterations, and ends: between
\* iterations the table is the header and one row per iteration done, a
\* run that has begun comes to its end, and the table is then the header
\* and 20 rows, whatever it held before.
C15_RunWritesTwentyRowsAndEnds ==
    /\ [](child.at = "loop" => (child.i <= 20 /\ HeaderAndRows(child.i)))
    /\ [](child.at = "done" => HeaderAndRows(20))
    /\ (Running ~> child.at = "done")

\* C15 witness: the second run has ended; the table, which held the 20
\* rows of the first run, is the header x, y, cost and 20 rows.
C15_Witness ==
    /\ child.at = "done" /\ child.pid = 2
    /\ child.headers = <<"x", "y", "cost">>
    /\ Len(table.lines) = 21
    /\ table.lines[1] = <<"x", "y", "cost">>

\* The lines of the table as a reader meets them, an unfinished last line
\* being one of them, and the rows that are complete.
TotalLines(tbl) == Len(tbl.lines) + (IF tbl.rest = <<>> THEN 0 ELSE 1)
WholeRows(tbl) == IF Len(tbl.lines) = 0 THEN 0 ELSE Len(tbl.lines) - 1

\* C16: get_study_progress reports 'not started' when the table does not
\* exist, and otherwise max(0, total lines - 1): N for a header and N
\* complete rows, 0 for an empty table and for a header alone.
C16_ProgressIsLinesLessHeader ==
    [][Called("get_study_progress") =>
          /\ table.kind = "nofile" => last'.msg = "Study has not started yet"
          /\ table.kind = "text" =>
                /\ last'.msg = "Current Progress"
                /\ last'.val = IF TotalLines(table) - 1 > 0
                               THEN TotalLines(table) - 1 ELSE 0
                /\ (table.rest = <<>> /\ Len(table.lines) >= 1) =>
                      last'.val = Len(table.lines) - 1
                /\ TotalLines(table) <= 1 => last'.val = 0]_vars

\* C16 witness: progress 3 has been reported of a table that is a header
\* and 3 rows.
C16_Witness ==
    /\ last.op = "get_study_progress"
    /\ last.val = 3
    /\ table.kind = "text" /\ table.rest = <<>> /\ Len(table.lines) = 4

\* C17: a get_study_progress call made while the script is appending rows
\* returns no error and reports the number of rows written in full; a row
\* written in part is not counted.
C17_ProgressCountsWholeRows ==
    [][(Called("get_study_progress") /\ child.at \in {"loop", "row"}) =>
          /\ last'.msg = "Current Progress"
          /\ last'.val = WholeRows(table)]_vars

\* C18: run_study_script of a path without a script returns the not-found
\* error, starts no process and leaves the log as it is; of a script, it
\* empties the log, starts a new child process and returns its identifier
\* while the child has done nothing: the table is as before the call.
C18_RunStartsChildWithoutWaiting ==
    [][Called("run_study_script") =>
          /\ scripts[last'.arg.script_path] = NoFile =>
                /\ last'.msg = "Error: Script not found"
                /\ child' = child
                /\ log' = log
          /\ scripts[last'.arg.script_path] # NoFile =>
                /\ last'.msg = "Study started in background"
                /\ log' = [kind |-> "text", lines |-> <<>>, rest |-> <<>>]
                /\ child'.at = "start" /\ child'.i = 0
                /\ child'.pid # child.pid
                /\ last'.val = child'.pid
                /\ table' = table]_vars

\* C18 witness: after a run that has ended and left its output in the log,
\* a path without a script has been named: the log still holds the output.
C18_Witness ==
    /\ last.op = "run_study_script"
    /\ last.arg.script_path = "other.py"
    /\ last.msg = "Error: Script not found"
    /\ child.at = "done"
    /\ log.kind = "text" /\ Len(log.lines) > 0

\* The input names and the output names of the record in a file; a file
\* that is not there holds none.
InputNamesOf(file) ==
    IF json_loadable(file)
    THEN {json_load(file).inputs[i].name : i \in 1..Len(json_load(file).inputs)}
    ELSE {}
OutputNamesOf(file) ==
    IF json_loadable(file) THEN SeqToSet(json_load(file).outputs) ELSE {}

\* C21: with tool calls made one after another, no call removes content
\* from a study: the input names and the output names of every record
\* after a call include those before it, so a record with inputs keeps
\* having inputs and a record with outputs keeps having outputs.
C21_ContentOnlyGrows ==
    [][\A k \in Keys :
          /\ InputNamesOf(store[k]) \subseteq InputNamesOf(store'[k])
          /\ OutputNamesOf(store[k]) \subseteq OutputNamesOf(store'[k])
          /\ json_loadable(store[k]) =>
                /\ json_loadable(store'[k])
                /\ json_load(store[k]).inputs # <<>> =>
                      json_load(store'[k]).inputs # <<>>
                /\ json_load(store[k]).outputs # <<>> =>
                      json_load(store'[k]).outputs # <<>>]_vars

\* C21 witness: add_input_manual has updated an input of a study that has
\* two inputs and an output; both inputs and the output are still there.
C21_Witness ==
    /\ last.op = "add_input_manual"
    /\ last.msg = "Updated existing input"
    /\ InputNamesOf(store[LastKey]) = {<<"x">>, <<"y">>}
    /\ OutputNamesOf(store[LastKey]) # {}

\* C22: every record is in the file its own study_name leads to, a call
\* for a study name changes no file but the one of that name, and two
\* names of one file work on one record.
C22_KeysConsistentAndIsolated ==
    /\ [](\A k \in DOMAIN store :
             json_loadable(store[k]) =>
                 get_study_path(json_load(store[k]).study_name) = k)
    /\ [][\A k \in DOMAIN store :
             k # NextKey => store'[k] = store[k]]_vars
    /\ [][\A n \in KeyNames :
             (Returned("set_executable_path") /\ NextKey = get_study_path(n)) =>
                 load_study(store', n).study = json_load(store'[NextKey])]_vars

\* C22 witness: the record created as "a!" has got its path by a call
\* naming "a", while the record of "b" and the record with the empty file
\* name exist beside it.
C22_Witness ==
    /\ last.op = "set_executable_path" /\ last.study_name = <<"a">>
    /\ json_loadable(store[<<"a">>])
    /\ json_load(store[<<"a">>]).study_name = <<"a", "!">>
    /\ json_load(store[<<"a">>]).executable_path = "/bin/sim"
    /\ json_loadable(store[<<"b">>])
    /\ json_load(store[<<"b">>]).executable_path = ""
    /\ json_loadable(store[<<>>])

\* C23: during a run of the script, a get_study_progress reading is never
\* less than the reading before it and lies between 0 and 20. The two
\* readings are of one run: no script has been started between them.
C23_ProgressNeverGoesBack ==
    [][(Called("get_study_progress") /\ last.op = "get_study_progress"
          /\ child.at # "none") =>
          /\ last'.val >= last.val
          /\ last'.val \in 0..20]_vars

\* C24: the header of every generated script names no field twice, so
\* each column of the table has a key of its own in the mapping the
\* sampling routine returns.
C24_HeaderFieldsDistinct ==
    \A f \in ScriptPaths :
        scripts[f] # NoFile =>
            /\ NoRepeat(scripts[f].headers)
            /\ NoRepeat(scripts[f].return_dict)

====
